---- MODULE Spec2Model ----
(***************************************************************************)
(* The data-fetching React components of the transaction dashboard:        *)
(*   TransactionList  (mount-only fetch),                                  *)
(*   TransactionGrid  (fetch on mount and on page / sort changes),         *)
(*   useDataGrid      (the reusable hook: page, sort, refresh, fetch).     *)
(*                                                                         *)
(* One behaviour follows one mounted component instance: instances share   *)
(* no state.  A user call is one step: the state setters of the handler,   *)
(* the re-render and the effect that the changed dependencies trigger      *)
(* (a click is flushed synchronously, so handlers always see the current   *)
(* render's values).  The completion of a fetch is a separate step that    *)
(* may happen at any time while the request is in flight.                  *)
(***************************************************************************)
EXTENDS Integers, Sequences, FiniteSets, TLC

VARIABLES
    mounted,    \* which component this behaviour mounts ("none" before mount)
    list,       \* useState cells of TransactionList
    grid,       \* useState cells of TransactionGrid
    hook,       \* useState cells of useDataGrid
    inflight,   \* requests issued and not yet settled, in issue order
    issued,     \* number of GET requests issued so far
    lastCall,   \* the most recent user call (history)
    prevCall,   \* the user call before lastCall (history)
    changes     \* number of user calls that changed page, sort or refresh
                \* counter (history)

vars == <<mounted, list, grid, hook, inflight, issued, lastCall, prevCall, changes>>

----------------------------------------------------------------------------
(* Bounds of the model *)

MaxRequests == 3
MaxPage == 2

----------------------------------------------------------------------------
(* Values *)

\* A nullable JavaScript value: null, or a present value.
Null == <<>>
Some(v) == <<v>>

\* The sortable columns (the two header buttons of the grid).
Columns == {"date", "amount"}

\* Totals the server may report: empty, an exact multiple of 10, a remainder.
Totals == {0, 10, 25}

\* HTTP statuses the server may answer with.
Statuses == {200, 404, 500}

\* Values a fetch promise may reject with: an Error, or something else.
Rejections ==
    { [instanceofError |-> TRUE,  message |-> "Failed to fetch"],
      [instanceofError |-> FALSE, message |-> "aborted"] }

NoThrow == [instanceofError |-> FALSE, message |-> ""]

\* What can happen to a request: the promise rejects, or a response with a
\* status arrives (a 2xx response carries a body with items and total).
FetchOutcomes ==
    { [rejected |-> FALSE, status |-> 200, total |-> t, reason |-> NoThrow]
        : t \in Totals }
    \cup { [rejected |-> FALSE, status |-> s, total |-> 0, reason |-> NoThrow]
        : s \in Statuses \ {200} }
    \cup { [rejected |-> TRUE, status |-> 0, total |-> 0, reason |-> r]
        : r \in Rejections }

\* response.ok
ResponseOk(status) == status \in 200..299

\* Mutant: the message leaves the status out.
HttpError_noStatus(status) == [instanceofError |-> TRUE, message |-> "HTTP error!"]

\* new Error(`HTTP error! status: ${response.status}`)
HttpError(status) ==
    [instanceofError |-> TRUE,
     message |-> "HTTP error! status: " \o ToString(status)]

\* The try block of a fetch function throws when the promise rejects or the
\* status is not OK.
Throws(o) == o.rejected \/ ~ResponseOk(o.status)

Thrown(o) == IF o.rejected THEN o.reason ELSE HttpError(o.status)

\* catch (e): e instanceof Error ? e.message : 'An error occurred'
CatchMessage(e) == IF e.instanceofError THEN e.message ELSE "An error occurred"

\* The rows the server returns for a request: none when it has no rows,
\* otherwise rows that identify the query they answer.
ResponseItems(req, o) == IF o.total = 0 THEN <<>> ELSE <<[servedFor |-> req]>>

\* JavaScript truthiness of a string | null cell: `if (error)`.
Truthy(cell) == cell # Null /\ cell # Some("")

\* Mutant: the floor-plus-one slip, which adds a page to exact multiples.
MathCeilDiv_floorPlusOne(total, pageSize) == (total \div pageSize) + 1

\* Math.ceil(total / pageSize) for integers total >= 0, pageSize >= 1.
MathCeilDiv(total, pageSize) ==
    (total \div pageSize) + (IF total % pageSize = 0 THEN 0 ELSE 1)

RemoveAt(s, i) == [j \in 1..(Len(s) - 1) |-> IF j < i THEN s[j] ELSE s[j + 1]]

\* History records of user calls: the call, its column argument (if any)
\* and the sort state it found.
SortOf(c) == [sortBy |-> c.sortBy, sortOrder |-> c.sortOrder]

NoCall == [call |-> "none", column |-> "", before |-> [sortBy |-> "", sortOrder |-> ""]]

Call(name, column, c) == [call |-> name, column |-> column, before |-> SortOf(c)]

----------------------------------------------------------------------------
(* useDataGrid *)

\* The defaults of the config destructuring.
DefaultConfig ==
    [defaultSortBy |-> "date", defaultSortOrder |-> "desc", defaultPageSize |-> 10]

\* The configs the hook is mounted with.
UseDataGridConfigs == {DefaultConfig}

\* The useState initial values.
UseDataGridState(config) ==
    [data |-> Null, total |-> 0, loading |-> FALSE, error |-> Null,
     page |-> 1, pageSize |-> config.defaultPageSize,
     sortBy |-> config.defaultSortBy, sortOrder |-> config.defaultSortOrder,
     refreshKey |-> 0]

\* Derived values of a render.
hTotalPages(h) == MathCeilDiv(h.total, h.pageSize)
hCanGoPrevious(h) == h.page > 1
\* Mutant: an inclusive comparison.
hCanGoNext_inclusive(h) == h.page <= hTotalPages(h)
hCanGoNext(h) == h.page < hTotalPages(h)

\* Mutant: sort_by and sort_order are filled from each other's state.
hRequest_swappedSort(h) ==
    [page |-> h.page, size |-> h.pageSize, sort_by |-> h.sortOrder,
     sort_order |-> h.sortBy]

\* Query parameters of the URL built by fetchData.
hRequest(h) ==
    [page |-> h.page, size |-> h.pageSize, sort_by |-> h.sortBy,
     sort_order |-> h.sortOrder]

\* Mutant: the effect depends on fetchData only.
hEffectDeps_noRefreshKey(h) == <<h.page, h.pageSize, h.sortBy, h.sortOrder>>

\* Dependencies of the effect: fetchData's own dependencies and refreshKey.
hEffectDeps(h) == <<h.page, h.pageSize, h.sortBy, h.sortOrder, h.refreshKey>>

\* Mutant: the held data survives the start of a fetch.
hFetchStart_keepData(h) == [h EXCEPT !.loading = TRUE, !.error = Null]

\* fetchData up to its first await.
hFetchStart(h) == [h EXCEPT !.loading = TRUE, !.error = Null, !.data = Null]

\* Mutant: a response to a query that is no longer the current one is dropped.
hFetchSettle_dropStale(h, req, o) ==
    IF req # hRequest(h)
    THEN h
    ELSE IF Throws(o)
         THEN [h EXCEPT !.error = Some(CatchMessage(Thrown(o))), !.data = Null,
                        !.total = 0, !.loading = FALSE]
         ELSE [h EXCEPT !.data = Some(ResponseItems(req, o)), !.total = o.total,
                        !.loading = FALSE]

\* fetchData after the awaits: the success path, or catch; then finally.
hFetchSettle(h, req, o) ==
    IF Throws(o)
    THEN [h EXCEPT !.error = Some(CatchMessage(Thrown(o))), !.data = Null,
                   !.total = 0, !.loading = FALSE]
    ELSE [h EXCEPT !.data = Some(ResponseItems(req, o)), !.total = o.total,
                   !.loading = FALSE]

\* The state setters of the three methods.
hSetPageState(h, newPage) == IF newPage >= 1 THEN [h EXCEPT !.page = newPage] ELSE h

\* Mutant: the toggle never leaves 'desc'.
hToggle_stuck(order) == "desc"

hToggle(order) == IF order = "asc" THEN "desc" ELSE "asc"

\* Mutant: a new column keeps the previous sort order.
hSetSortState_keepOrder(h, column) ==
    IF h.sortBy = column
    THEN [h EXCEPT !.sortOrder = hToggle(h.sortOrder), !.page = 1]
    ELSE [h EXCEPT !.sortBy = column, !.page = 1]

\* Mutant: the page is not reset.
hSetSortState_keepPage(h, column) ==
    IF h.sortBy = column
    THEN [h EXCEPT !.sortOrder = hToggle(h.sortOrder)]
    ELSE [h EXCEPT !.sortBy = column, !.sortOrder = "desc"]

hSetSortState(h, column) ==
    IF h.sortBy = column
    THEN [h EXCEPT !.sortOrder = hToggle(h.sortOrder), !.page = 1]
    ELSE [h EXCEPT !.sortBy = column, !.sortOrder = "desc", !.page = 1]

\* Mutant: a refresh also goes back to the first page.
hRefreshState_firstPage(h) == [h EXCEPT !.refreshKey = h.refreshKey + 1, !.page = 1]

hRefreshState(h) == [h EXCEPT !.refreshKey = h.refreshKey + 1]

\* What the user's calls set: page, sort column, sort order, refresh counter.
hParams(h) == <<h.page, h.sortBy, h.sortOrder, h.refreshKey>>

\* Commit of a state update: the effect runs iff a dependency changed.
hCommit(new, call) ==
    /\ hook' = IF hEffectDeps(new) # hEffectDeps(hook) THEN hFetchStart(new) ELSE new
    /\ inflight' = IF hEffectDeps(new) # hEffectDeps(hook)
                   THEN Append(inflight, hRequest(new)) ELSE inflight
    /\ issued' = IF hEffectDeps(new) # hEffectDeps(hook) THEN issued + 1 ELSE issued
    /\ lastCall' = call
    /\ prevCall' = lastCall
    /\ changes' = IF hParams(new) # hParams(hook) THEN changes + 1 ELSE changes
    /\ UNCHANGED <<mounted, list, grid>>

hMount(config) ==
    /\ mounted = "none"
    /\ mounted' = "useDataGrid"
    /\ hook' = hFetchStart(UseDataGridState(config))
    /\ inflight' = <<hRequest(UseDataGridState(config))>>
    /\ issued' = 1
    /\ UNCHANGED <<list, grid, lastCall, prevCall, changes>>

hSetPage(newPage) ==
    /\ mounted = "useDataGrid"
    /\ issued < MaxRequests
    /\ hCommit(hSetPageState(hook, newPage), Call("setPage", "", hook))

hSetSort(column) ==
    /\ mounted = "useDataGrid"
    /\ issued < MaxRequests
    /\ hCommit(hSetSortState(hook, column), Call("setSort", column, hook))

hRefresh ==
    /\ mounted = "useDataGrid"
    /\ issued < MaxRequests
    /\ hCommit(hRefreshState(hook), Call("refresh", "", hook))

\* Mutant: a failed fetch is issued again.
hSettle_retry(i, o) ==
    /\ mounted = "useDataGrid"
    /\ i \in 1..Len(inflight)
    /\ hook' = hFetchSettle(hook, inflight[i], o)
    /\ inflight' = IF Throws(o) THEN Append(RemoveAt(inflight, i), inflight[i])
                   ELSE RemoveAt(inflight, i)
    /\ issued' = IF Throws(o) THEN issued + 1 ELSE issued
    /\ UNCHANGED <<mounted, list, grid, lastCall, prevCall, changes>>

hSettle(i, o) ==
    /\ mounted = "useDataGrid"
    /\ i \in 1..Len(inflight)
    /\ hook' = hFetchSettle(hook, inflight[i], o)
    /\ inflight' = RemoveAt(inflight, i)
    /\ UNCHANGED <<mounted, list, grid, issued, lastCall, prevCall, changes>>

----------------------------------------------------------------------------
(* TransactionGrid *)

GridPageSize == 10

TransactionGridState ==
    [transactions |-> <<>>, loading |-> TRUE, total |-> 0, error |-> Null,
     sortBy |-> "date", sortOrder |-> "desc", page |-> 1, pageSize |-> GridPageSize]

\* What the component returns: the loading text, the error text or the table.
Render(c) ==
    IF c.loading THEN "loading" ELSE IF Truthy(c.error) THEN "error" ELSE "table"

\* Derived values of a render.
gTotalPages(g) == MathCeilDiv(g.total, g.pageSize)
gCanGoPrevious(g) == g.page > 1
gCanGoNext(g) == g.page < gTotalPages(g)

\* Query parameters of the URL built by fetchTransactions.
gRequest(g) ==
    [page |-> g.page, size |-> g.pageSize, sort_by |-> g.sortBy,
     sort_order |-> g.sortOrder]

gEffectDeps(g) == <<g.sortBy, g.sortOrder, g.page, g.pageSize>>

\* fetchTransactions up to its await.
gFetchStart(g) == [g EXCEPT !.loading = TRUE]

\* Mutant: the catch block swallows the error.
gFetchSettle_swallow(g, req, o) ==
    IF Throws(o)
    THEN [g EXCEPT !.loading = FALSE]
    ELSE [g EXCEPT !.transactions = ResponseItems(req, o), !.total = o.total,
                   !.loading = FALSE]

\* fetchTransactions after the awaits: the success path, or catch; then finally.
gFetchSettle(g, req, o) ==
    IF Throws(o)
    THEN [g EXCEPT !.error = Some(CatchMessage(Thrown(o))), !.loading = FALSE]
    ELSE [g EXCEPT !.transactions = ResponseItems(req, o), !.total = o.total,
                   !.loading = FALSE]

\* The state setters of the three handlers.
gHandleSortState(g, column) ==
    IF g.sortBy = column
    THEN [g EXCEPT !.sortOrder = IF g.sortOrder = "asc" THEN "desc" ELSE "asc"]
    ELSE [g EXCEPT !.sortBy = column, !.sortOrder = "desc"]

gHandlePreviousPageState(g) ==
    IF gCanGoPrevious(g) THEN [g EXCEPT !.page = g.page - 1] ELSE g

gHandleNextPageState(g) ==
    IF gCanGoNext(g) THEN [g EXCEPT !.page = g.page + 1] ELSE g

\* What the user's clicks set: page, sort column, sort order.
gParams(g) == <<g.page, g.sortBy, g.sortOrder>>

\* Commit of a state update: the effect runs iff a dependency changed.
gCommit(new, call) ==
    /\ grid' = IF gEffectDeps(new) # gEffectDeps(grid) THEN gFetchStart(new) ELSE new
    /\ inflight' = IF gEffectDeps(new) # gEffectDeps(grid)
                   THEN Append(inflight, gRequest(new)) ELSE inflight
    /\ issued' = IF gEffectDeps(new) # gEffectDeps(grid) THEN issued + 1 ELSE issued
    /\ lastCall' = call
    /\ prevCall' = lastCall
    /\ changes' = IF gParams(new) # gParams(grid) THEN changes + 1 ELSE changes
    /\ UNCHANGED <<mounted, list, hook>>

gMount ==
    /\ mounted = "none"
    /\ mounted' = "TransactionGrid"
    /\ grid' = gFetchStart(TransactionGridState)
    /\ inflight' = <<gRequest(TransactionGridState)>>
    /\ issued' = 1
    /\ UNCHANGED <<list, hook, lastCall, prevCall, changes>>

\* The handlers are reachable only through the buttons of the rendered table;
\* the paging buttons are disabled when their handler would do nothing.
gHandleSort(column) ==
    /\ mounted = "TransactionGrid"
    /\ Render(grid) = "table"
    /\ issued < MaxRequests
    /\ gCommit(gHandleSortState(grid, column), Call("handleSort", column, grid))

gHandlePreviousPage ==
    /\ mounted = "TransactionGrid"
    /\ Render(grid) = "table"
    /\ gCanGoPrevious(grid)
    /\ issued < MaxRequests
    /\ gCommit(gHandlePreviousPageState(grid), Call("handlePreviousPage", "", grid))

gHandleNextPage ==
    /\ mounted = "TransactionGrid"
    /\ Render(grid) = "table"
    /\ gCanGoNext(grid)
    /\ issued < MaxRequests
    /\ gCommit(gHandleNextPageState(grid), Call("handleNextPage", "", grid))

gSettle(i, o) ==
    /\ mounted = "TransactionGrid"
    /\ i \in 1..Len(inflight)
    /\ grid' = gFetchSettle(grid, inflight[i], o)
    /\ inflight' = RemoveAt(inflight, i)
    /\ UNCHANGED <<mounted, list, hook, issued, lastCall, prevCall, changes>>

----------------------------------------------------------------------------
(* TransactionList *)

TransactionListState == [transactions |-> <<>>, loading |-> TRUE, error |-> Null]

lRequest == [path |-> "/api/v1/transactions/"]

lFetchStart(l) == [l EXCEPT !.loading = TRUE]

lFetchSettle(l, req, o) ==
    IF Throws(o)
    THEN [l EXCEPT !.error = Some(CatchMessage(Thrown(o))), !.loading = FALSE]
    ELSE [l EXCEPT !.transactions = ResponseItems(req, o), !.loading = FALSE]

lMount ==
    /\ mounted = "none"
    /\ mounted' = "TransactionList"
    /\ list' = lFetchStart(TransactionListState)
    /\ inflight' = <<lRequest>>
    /\ issued' = 1
    /\ UNCHANGED <<grid, hook, lastCall, prevCall, changes>>

lSettle(i, o) ==
    /\ mounted = "TransactionList"
    /\ i \in 1..Len(inflight)
    /\ list' = lFetchSettle(list, inflight[i], o)
    /\ inflight' = RemoveAt(inflight, i)
    /\ UNCHANGED <<mounted, grid, hook, issued, lastCall, prevCall, changes>>

----------------------------------------------------------------------------

Init ==
    /\ mounted = "none"
    /\ list = TransactionListState
    /\ grid = TransactionGridState
    /\ hook = UseDataGridState(DefaultConfig)
    /\ inflight = <<>>
    /\ issued = 0
    /\ lastCall = NoCall
    /\ prevCall = NoCall
    /\ changes = 0

Next ==
    \/ \E config \in UseDataGridConfigs : hMount(config)
    \/ \E newPage \in 0..MaxPage : hSetPage(newPage)
    \/ \E column \in Columns : hSetSort(column)
    \/ hRefresh
    \/ \E i \in 1..MaxRequests, o \in FetchOutcomes : hSettle(i, o)
    \/ gMount
    \/ \E column \in Columns : gHandleSort(column)
    \/ gHandlePreviousPage
    \/ gHandleNextPage
    \/ \E i \in 1..MaxRequests, o \in FetchOutcomes : gSettle(i, o)
    \/ lMount
    \/ \E i \in 1..MaxRequests, o \in FetchOutcomes : lSettle(i, o)

Spec == Init /\ [][Next]_vars

\* A pending fetch promise settles: the browser answers or fails every
\* request it was handed.
SettleSome ==
    \E i \in 1..MaxRequests, o \in FetchOutcomes :
        hSettle(i, o) \/ gSettle(i, o) \/ lSettle(i, o)

FairSpec == Spec /\ WF_vars(SettleSome)

----------------------------------------------------------------------------
(* Shorthands used by the properties *)

NewestRequest == inflight[Len(inflight)]

\* A step in which a request settles: it leaves the in-flight requests.
IsSettleStep == Len(inflight') < Len(inflight)

OkOutcomes == {o \in FetchOutcomes : ~Throws(o)}
FailedOutcomes == {o \in FetchOutcomes : Throws(o)}

Opposite(before, after) ==
    /\ before = "asc" => after = "desc"
    /\ before = "desc" => after = "asc"

----------------------------------------------------------------------------
(* C1: one GET is issued on mount, exactly one more after every step that  *)
(* changes page, sort column, sort order or (hook) the refresh counter,    *)
(* and none in a step that changes none of them.                           *)
C1_RequestPerChange ==
    [][ /\ (mounted = "none" /\ mounted' # "none")
            => (issued' = 1 /\ Len(inflight') = 1)
        /\ (mounted = "useDataGrid" /\ hParams(hook') # hParams(hook))
            => (issued' = issued + 1 /\ inflight' = Append(inflight, hRequest(hook')))
        /\ (mounted = "useDataGrid" /\ hParams(hook') = hParams(hook))
            => (issued' = issued /\ Len(inflight') <= Len(inflight))
        /\ (mounted = "TransactionGrid" /\ gParams(grid') # gParams(grid))
            => (issued' = issued + 1 /\ inflight' = Append(inflight, gRequest(grid')))
        /\ (mounted = "TransactionGrid" /\ gParams(grid') = gParams(grid))
            => (issued' = issued /\ Len(inflight') <= Len(inflight)) ]_vars

\* The refresh issued the second request; the setPage called after it left
\* the page as it was and issued none.
C1_Witness ==
    /\ mounted = "useDataGrid"
    /\ prevCall.call = "refresh"
    /\ lastCall.call = "setPage"
    /\ hook.refreshKey = 1
    /\ issued = 2

(* C2: overlapping requests of useDataGrid are neither cancelled nor       *)
(* sequenced: issuing a request leaves the earlier ones in flight, and any *)
(* in-flight request, whatever its position in issue order, may settle and *)
(* its successful response becomes the held data and total.                *)
C2_NoCancelNoSequence ==
    [][ mounted = "useDataGrid" =>
          /\ issued' > issued => inflight' = Append(inflight, hRequest(hook'))
          /\ IsSettleStep =>
               \A i \in 1..Len(inflight), o \in OkOutcomes :
                  hSettle(i, o)
                    => /\ hook'.data = Some(ResponseItems(inflight[i], o))
                       /\ hook'.total = o.total
                       /\ inflight' = RemoveAt(inflight, i) ]_vars

\* Nothing is in flight and the held rows answer a query that is not the
\* current one: an earlier request settled after the newest one.
C2_Witness ==
    /\ mounted = "useDataGrid"
    /\ inflight = <<>>
    /\ issued >= 2
    /\ hook.data # Null
    /\ hook.data # Some(<<>>)
    /\ hook.data[1][1].servedFor # hRequest(hook)
    /\ hook.total = 25

(* C3: every fetch that rejects or answers with a non-OK status sets error *)
(* to a non-null string, and TransactionGrid and TransactionList render    *)
(* the error message, not the table, whenever loading is false and error   *)
(* is non-null.                                                            *)
C3_ErrorSurfaced ==
    /\ [][ IsSettleStep =>
             \A i \in 1..Len(inflight), o \in FailedOutcomes :
               /\ hSettle(i, o) => (hook'.error # Null /\ Len(hook'.error[1]) > 0)
               /\ gSettle(i, o) => (grid'.error # Null /\ Len(grid'.error[1]) > 0)
               /\ lSettle(i, o) => (list'.error # Null /\ Len(list'.error[1]) > 0) ]_vars
    /\ []( /\ (~grid.loading /\ grid.error # Null) => Render(grid) = "error"
           /\ (~list.loading /\ list.error # Null) => Render(list) = "error" )

C3_Witness ==
    /\ mounted = "TransactionGrid"
    /\ ~grid.loading
    /\ grid.error = Some("HTTP error! status: 500")
    /\ Render(grid) = "error"

(* C4 (as stated): in TransactionGrid and useDataGrid the held items and   *)
(* total equal the last successful response's and change in no step other *)
(* than the settling of a fetch; issuing a request changes neither.        *)
C4_HeldUntilNextResponse ==
    [][ /\ IsSettleStep =>
             \A i \in 1..Len(inflight), o \in OkOutcomes :
               /\ hSettle(i, o) => /\ hook'.data = Some(ResponseItems(inflight[i], o))
                                   /\ hook'.total = o.total
               /\ gSettle(i, o) => /\ grid'.transactions = ResponseItems(inflight[i], o)
                                   /\ grid'.total = o.total
        /\ ~IsSettleStep =>
               /\ hook'.data = hook.data /\ hook'.total = hook.total
               /\ grid'.transactions = grid.transactions /\ grid'.total = grid.total ]_vars

(* C4 (amended): TransactionGrid holds the items and total of the last     *)
(* successful response until a later successful response replaces them.    *)
(* useDataGrid takes the items and total of a successful response, resets  *)
(* data to null (total unchanged) whenever it issues a request, and resets *)
(* data to null and total to 0 when a fetch fails.                         *)
C4_HeldUntilReplacedOrCleared ==
    [][ /\ IsSettleStep =>
             /\ \A i \in 1..Len(inflight), o \in OkOutcomes :
                  /\ hSettle(i, o) => /\ hook'.data = Some(ResponseItems(inflight[i], o))
                                      /\ hook'.total = o.total
                  /\ gSettle(i, o) => /\ grid'.transactions = ResponseItems(inflight[i], o)
                                      /\ grid'.total = o.total
             /\ \A i \in 1..Len(inflight), o \in FailedOutcomes :
                  /\ hSettle(i, o) => (hook'.data = Null /\ hook'.total = 0)
                  /\ gSettle(i, o) => /\ grid'.transactions = grid.transactions
                                      /\ grid'.total = grid.total
        /\ ~IsSettleStep =>
             /\ grid'.transactions = grid.transactions /\ grid'.total = grid.total
             /\ hook'.total = hook.total
             /\ issued' = issued => hook'.data = hook.data
             /\ (issued' > issued /\ mounted' = "useDataGrid") => hook'.data = Null ]_vars

\* The hook still holds the total of a successful response while the data
\* was cleared by the request issued after it.
C4_Witness ==
    /\ mounted = "useDataGrid"
    /\ hook.total = 25
    /\ hook.data = Null
    /\ hook.loading
    /\ lastCall.call # "none"

(* C5: canGoPrevious is true exactly when page > 1 and canGoNext exactly   *)
(* when page < totalPages, in useDataGrid and in TransactionGrid; with     *)
(* page = 2, pageSize = 10, total = 25 both are true.                      *)
C5_PagingFlags ==
    /\ hCanGoPrevious(hook) = (hook.page > 1)
    /\ hCanGoNext(hook) = (hook.page < hTotalPages(hook))
    /\ gCanGoPrevious(grid) = (grid.page > 1)
    /\ gCanGoNext(grid) = (grid.page < gTotalPages(grid))
    /\ (hook.page = 2 /\ hook.pageSize = 10 /\ hook.total = 25)
          => (hCanGoNext(hook) /\ hCanGoPrevious(hook))
    /\ (grid.page = 2 /\ grid.pageSize = 10 /\ grid.total = 25)
          => (gCanGoNext(grid) /\ gCanGoPrevious(grid))

C5_Witness ==
    /\ mounted = "TransactionGrid"
    /\ grid.page = 2 /\ grid.pageSize = 10 /\ grid.total = 25
    /\ gCanGoNext(grid) /\ gCanGoPrevious(grid)

\* n is the smallest integer with n * pageSize >= total.
IsCeiling(n, total, pageSize) ==
    /\ n * pageSize >= total
    /\ (n - 1) * pageSize < total

MaxTotal == 30
MaxPageSize == 12

(* C6: totalPages is the smallest integer n with n * pageSize >= total,    *)
(* in every reachable state and for every total >= 0 and pageSize >= 1 of  *)
(* the bounded ranges; 0 for total = 0, no extra page for exact multiples. *)
C6_TotalPagesIsCeiling ==
    /\ IsCeiling(hTotalPages(hook), hook.total, hook.pageSize)
    /\ IsCeiling(gTotalPages(grid), grid.total, grid.pageSize)
    /\ hook.total = 0 => hTotalPages(hook) = 0
    /\ grid.total = 0 => gTotalPages(grid) = 0
    /\ mounted = "none" =>      \* state-independent: evaluated once, before mount
          \A total \in 0..MaxTotal, pageSize \in 1..MaxPageSize :
             IsCeiling(MathCeilDiv(total, pageSize), total, pageSize)

\* An exact multiple: 10 rows in pages of 10 is one page.
C6_Witness ==
    /\ mounted = "useDataGrid"
    /\ hook.total = 10 /\ hook.pageSize = 10
    /\ hTotalPages(hook) = 1

IsSortCall(c) == c.call \in {"setSort", "handleSort"}
IsSameColumnSort(c) == IsSortCall(c) /\ c.column = c.before.sortBy

CurrentSort ==
    IF mounted = "useDataGrid"
    THEN [sortBy |-> hook.sortBy, sortOrder |-> hook.sortOrder]
    ELSE [sortBy |-> grid.sortBy, sortOrder |-> grid.sortOrder]

(* C7: setSort / handleSort with the current sort column toggles sortOrder *)
(* and leaves sortBy unchanged; two such calls in a row restore the        *)
(* original sortOrder.                                                     *)
C7_SameColumnToggles ==
    /\ IsSameColumnSort(lastCall) =>
          /\ CurrentSort.sortBy = lastCall.before.sortBy
          /\ Opposite(lastCall.before.sortOrder, CurrentSort.sortOrder)
          /\ CurrentSort.sortOrder \in {"asc", "desc"}
    /\ (IsSameColumnSort(lastCall) /\ IsSameColumnSort(prevCall)) =>
          CurrentSort.sortOrder = prevCall.before.sortOrder

C7_Witness ==
    /\ mounted = "useDataGrid"
    /\ IsSameColumnSort(lastCall)
    /\ IsSameColumnSort(prevCall)
    /\ hook.sortOrder = "desc"
    /\ lastCall.before.sortOrder = "asc"

(* C8: setSort / handleSort with a column other than the current sortBy    *)
(* sets sortBy to that column and sortOrder to 'desc', whatever the        *)
(* sortOrder was.                                                          *)
C8_NewColumnSortsDesc ==
    (IsSortCall(lastCall) /\ lastCall.column # lastCall.before.sortBy) =>
        /\ CurrentSort.sortBy = lastCall.column
        /\ CurrentSort.sortOrder = "desc"

C8_Witness ==
    /\ mounted = "TransactionGrid"
    /\ IsSortCall(lastCall)
    /\ lastCall.column # lastCall.before.sortBy
    /\ lastCall.before.sortOrder = "asc"
    /\ grid.sortOrder = "desc"

(* C9: every setSort of useDataGrid, same column or not, resets page to 1  *)
(* and issues one request, which carries page = 1.                         *)
C9_SortResetsPage ==
    [][ \A column \in Columns :
          hSetSort(column) =>
            /\ hook'.page = 1
            /\ issued' = issued + 1
            /\ Len(inflight') = Len(inflight) + 1
            /\ inflight'[Len(inflight')].page = 1 ]_vars

\* The request of a setPage(2) and the request of the setSort called after
\* it are both in flight: the first carries page 2, the second page 1.
C9_Witness ==
    /\ mounted = "useDataGrid"
    /\ lastCall.call = "setSort"
    /\ prevCall.call = "setPage"
    /\ hook.page = 1
    /\ Len(inflight) >= 2
    /\ inflight[Len(inflight) - 1].page = 2
    /\ NewestRequest.page = 1
    /\ NewestRequest.sort_by = lastCall.column

(* C10: refresh of useDataGrid leaves page, pageSize, sortBy and sortOrder *)
(* unchanged and issues exactly one request, whose parameters are those of *)
(* the current state.                                                      *)
C10_RefreshRefetches ==
    [][ hRefresh =>
          /\ hook'.page = hook.page
          /\ hook'.pageSize = hook.pageSize
          /\ hook'.sortBy = hook.sortBy
          /\ hook'.sortOrder = hook.sortOrder
          /\ issued' = issued + 1
          /\ inflight' = Append(inflight, hRequest(hook)) ]_vars

\* The request of a setPage(2) and the request of the refresh called after
\* it are both in flight, with the same parameters.
C10_Witness ==
    /\ mounted = "useDataGrid"
    /\ lastCall.call = "refresh"
    /\ prevCall.call = "setPage"
    /\ hook.page = 2
    /\ Len(inflight) >= 2
    /\ NewestRequest = hRequest(hook)
    /\ inflight[Len(inflight) - 1] = NewestRequest

(* C11: every request issued by useDataGrid or TransactionGrid carries the *)
(* query parameters page, size, sort_by and sort_order equal to page,      *)
(* pageSize, sortBy and sortOrder of the state in which it is issued.      *)
C11_RequestCarriesState ==
    [][ issued' > issued =>
          /\ Len(inflight') = Len(inflight) + 1
          /\ mounted' = "useDataGrid" =>
                /\ inflight'[Len(inflight')].page = hook'.page
                /\ inflight'[Len(inflight')].size = hook'.pageSize
                /\ inflight'[Len(inflight')].sort_by = hook'.sortBy
                /\ inflight'[Len(inflight')].sort_order = hook'.sortOrder
          /\ mounted' = "TransactionGrid" =>
                /\ inflight'[Len(inflight')].page = grid'.page
                /\ inflight'[Len(inflight')].size = grid'.pageSize
                /\ inflight'[Len(inflight')].sort_by = grid'.sortBy
                /\ inflight'[Len(inflight')].sort_order = grid'.sortOrder ]_vars

\* The newest request of the hook asks for page 2 of the rows sorted by
\* amount, descending, in pages of 10: the state set by setSort and setPage.
C11_Witness ==
    /\ mounted = "useDataGrid"
    /\ lastCall.call = "setPage"
    /\ prevCall.call = "setSort"
    /\ inflight # <<>>
    /\ NewestRequest =
          [page |-> 2, size |-> 10, sort_by |-> "amount", sort_order |-> "desc"]
    /\ hook.page = 2 /\ hook.sortBy = "amount" /\ hook.sortOrder = "desc"

(* C12: there is no retry.  The settling of a fetch, successful or failed, *)
(* issues no request, so the number of requests issued is one (the mount)  *)
(* plus the number of user calls that changed page, sort column, sort      *)
(* order or the refresh counter; and from any state with requests in       *)
(* flight, unless a further request is issued the component reaches a      *)
(* state with none in flight.                                              *)
C12_NoRetry ==
    /\ [](IF mounted = "none" THEN issued = 0 ELSE issued = 1 + changes)
    /\ [][IsSettleStep =>
            (issued' = issued /\ Len(inflight') = Len(inflight) - 1)]_vars
    /\ \A k \in 1..MaxRequests :
          (inflight # <<>> /\ issued = k) ~> (inflight = <<>> \/ issued > k)

\* Three requests were issued, by the mount and two changing calls; all of
\* them have settled, the last one to settle failed, and nothing is in flight.
C12_Witness ==
    /\ mounted = "useDataGrid"
    /\ issued = 3
    /\ changes = 2
    /\ inflight = <<>>
    /\ hook.error # Null
    /\ ~hook.loading

(* C13: a response with non-OK status s surfaces the error string          *)
(* 'HTTP error! status: s', so different statuses give different strings;  *)
(* a rejection with a value that is not an Error surfaces                  *)
(* 'An error occurred'.                                                    *)
C13_ErrorStrings ==
    [][ IsSettleStep =>
          \A i \in 1..Len(inflight), o \in FailedOutcomes :
             /\ ~o.rejected =>
                  /\ hSettle(i, o) =>
                       hook'.error = Some("HTTP error! status: " \o ToString(o.status))
                  /\ gSettle(i, o) =>
                       grid'.error = Some("HTTP error! status: " \o ToString(o.status))
                  /\ (o.status = 404 /\ hSettle(i, o)) =>
                       hook'.error = Some("HTTP error! status: 404")
                  /\ (o.status = 404 /\ gSettle(i, o)) =>
                       grid'.error = Some("HTTP error! status: 404")
                  /\ \A p \in FailedOutcomes :
                       (~p.rejected /\ p.status # o.status) =>
                          /\ hFetchSettle(hook, inflight[i], p).error
                                # hFetchSettle(hook, inflight[i], o).error
                          /\ gFetchSettle(grid, inflight[i], p).error
                                # gFetchSettle(grid, inflight[i], o).error
             /\ (o.rejected /\ ~o.reason.instanceofError) =>
                  /\ hSettle(i, o) => hook'.error = Some("An error occurred")
                  /\ gSettle(i, o) => grid'.error = Some("An error occurred") ]_vars

C13_Witness ==
    /\ mounted = "useDataGrid"
    /\ ~hook.loading
    /\ inflight = <<>>
    /\ hook.error = Some("HTTP error! status: 404")

(* C14: in useDataGrid and in TransactionGrid loading is true in every     *)
(* state in which at least one request is in flight, also when requests    *)
(* overlap and one of them has already settled.                            *)
C14_LoadingWhileInFlight ==
    /\ (mounted = "useDataGrid" /\ inflight # <<>>) => hook.loading
    /\ (mounted = "TransactionGrid" /\ inflight # <<>>) => grid.loading

====
